---- MODULE Spec2Model ----
(***************************************************************************)
(* A model of faceiraq_multi_crawler2.py: the time parser (parse_time),    *)
(* the per-section crawl loop (crawl_section), the result writer           *)
(* (save_results) and the session driver (run).                            *)
(*                                                                         *)
(* Text is a sequence of characters.  Arabic letters are written by their  *)
(* Unicode names ("MEEM" is U+0645, "TEHM" is TEH MARBUTA U+0629), every   *)
(* other character by itself.                                              *)
(***************************************************************************)
EXTENDS Integers, Sequences, FiniteSets, TLC

VARIABLES
    clock,              \* number of clock steps since construction: utcnow() reads it
    hours_limit,        \* self.hours_limit
    cutoff_time,        \* self.cutoff_time
    target_sections,    \* self.target_sections
    results,            \* self.results: section_key -> [articles, seen_titles]
    runpc,              \* position in run()
    sec_idx,            \* index of the for loops of run() over target_sections
    cpc,                \* position in crawl_section()
    scroll_count,       \* local of crawl_section
    old_articles_count, \* local of crawl_section
    card_idx,           \* number of cards of the current page_source already iterated
    quits,              \* number of calls of self.driver.quit()
    driver_ops,         \* log: number of driver.get calls, i.e. of crawls started
    used_after_quit,    \* log: the driver was used after driver.quit()
    saved,              \* log: the (section_key, articles) handed to the file writers
    logged,             \* log: the except branch of run() printed the error
    failed_at,          \* log: sec_idx at which an exception left the try block (0: none)
    failed_in,          \* log: the step of run() that raised ("none", "crawl", "save", "summary")
    last_exit,          \* log: how the crawl_section call before this point ended
                        \*      ("stale", "rounds", "error"; "none" before and during a call)
    rounds_done,        \* log: page_source extractions of the current crawl
    scrolls_done,       \* log: completed scroll requests of the current crawl
    caught,             \* log: the except branch of the for loop ran in this round
    stale_titles,       \* log: the titles counted as old during the current crawl
    alone,              \* a crawl of the current section in a session of its own, fed
                        \*      the same pages, clock readings and driver failures, and
                        \*      followed until it differs from the crawl of this session
    p_text,             \* input of a stand-alone parse_time call
    p_result            \* its outcome

vars == <<clock, hours_limit, cutoff_time, target_sections, results, runpc, sec_idx,
          cpc, scroll_count, old_articles_count, card_idx, quits, driver_ops,
          used_after_quit, saved, logged, failed_at, failed_in, last_exit, rounds_done,
          scrolls_done, caught, stale_titles, alone, p_text, p_result>>

----------------------------------------------------------------------------
(* Bounds of the model *)

\* the clock advances at most this many steps in one run
MaxTicks == 1
\* a page_source holds at most this many cards
MaxCards == 2

----------------------------------------------------------------------------
(* Characters and text *)

DigitChars == {"0", "1", "2", "3", "4", "5", "6", "7", "8", "9"}
\* what \s and str.strip() take for white space
SpaceChars == {" ", "\t"}

DigitValue ==
    [c \in DigitChars |->
        CASE c = "0" -> 0 [] c = "1" -> 1 [] c = "2" -> 2 [] c = "3" -> 3
          [] c = "4" -> 4 [] c = "5" -> 5 [] c = "6" -> 6 [] c = "7" -> 7
          [] c = "8" -> 8 [] c = "9" -> 9]

DigitChar == <<"0", "1", "2", "3", "4", "5", "6", "7", "8", "9">>

MUNDHU == <<"MEEM", "NOON", "THAL">>
SAAEA == <<"SEEN", "ALEF", "AIN", "ALEF">>
SAAEAT == <<"SEEN", "ALEF", "AIN", "ALEF", "TEH">>
SAAEH == <<"SEEN", "ALEF", "AIN", "TEHM">>
DAQIQA == <<"DAL", "QAF", "YEH", "QAF", "TEHM">>
WAHIDA == <<"WAW", "ALEF", "HAH", "DAL", "TEHM">>
SAAEATAYN == <<"SEEN", "ALEF", "AIN", "TEH", "YEH", "NOON">>
SP == <<" ">>
ONE_HOUR_AGO == MUNDHU \o SP \o SAAEH \o SP \o WAHIDA
TWO_HOURS_AGO == MUNDHU \o SP \o SAAEATAYN

\* s[i..] starts with w
HasAt(s, i, w) ==
    /\ i >= 1
    /\ i + Len(w) - 1 <= Len(s)
    /\ \A k \in 1..Len(w) : s[i + k - 1] = w[k]

\* w in s
Contains(s, w) == \E i \in 1..(Len(s) - Len(w) + 1) : HasAt(s, i, w)

\* the first index >= i of s that holds no character of cls (Len(s)+1 if none)
RunEnd(s, i, cls) ==
    LET stops == {j \in i..(Len(s) + 1) : j = Len(s) + 1 \/ s[j] \notin cls}
    IN CHOOSE j \in stops : \A k \in stops : j <= k

\* str.strip()
strip(s) ==
    LET first == RunEnd(s, 1, SpaceChars)
        ends == {j \in 0..Len(s) : j = 0 \/ s[j] \notin SpaceChars}
        last == CHOOSE j \in ends : \A k \in ends : k <= j
    IN IF first > Len(s) THEN <<>> ELSE SubSeq(s, first, last)

RECURSIVE IntOf(_)
\* int() of a string of decimal digits
IntOf(ds) ==
    IF ds = <<>> THEN 0
    ELSE 10 * IntOf(SubSeq(ds, 1, Len(ds) - 1)) + DigitValue[ds[Len(ds)]]

RECURSIVE Pad(_, _)
\* "%0<width>d" % n
Pad(n, width) ==
    IF width = 0 THEN <<>>
    ELSE Pad(n \div 10, width - 1) \o <<DigitChar[(n % 10) + 1]>>

----------------------------------------------------------------------------
(* datetime and timedelta, as far as the crawler uses them.  A datetime is   *)
(* [ord, sec, us]: the proleptic Gregorian ordinal of its day (0001-01-01 is *)
(* day 1), the second of the day and the microsecond of the second.          *)

IsLeap(y) == y % 4 = 0 /\ (y % 100 # 0 \/ y % 400 = 0)

DAYS_IN_MONTH == <<31, 28, 31, 30, 31, 30, 31, 31, 30, 31, 30, 31>>
DAYS_BEFORE_MONTH == <<0, 31, 59, 90, 120, 151, 181, 212, 243, 273, 304, 334>>

DaysInMonth(y, m) == IF m = 2 /\ IsLeap(y) THEN 29 ELSE DAYS_IN_MONTH[m]
DaysBeforeMonth(y, m) == DAYS_BEFORE_MONTH[m] + (IF m > 2 /\ IsLeap(y) THEN 1 ELSE 0)
DaysBeforeYear(y) ==
    LET p == y - 1 IN p * 365 + (p \div 4) - (p \div 100) + (p \div 400)

ymd2ord(y, m, d) == DaysBeforeYear(y) + DaysBeforeMonth(y, m) + d

\* the [year, month, day] of an ordinal
ord2ymd(ord) ==
    LET n0 == ord - 1
        n400 == n0 \div 146097
        r400 == n0 % 146097
        n100 == r400 \div 36524
        r100 == r400 % 36524
        n4 == r100 \div 1461
        r4 == r100 % 1461
        n1 == r4 \div 365
        r1 == r4 % 365
        y == n400 * 400 + n100 * 100 + n4 * 4 + n1 + 1
        m == CHOOSE k \in 1..12 :
                /\ DaysBeforeMonth(y, k) <= r1
                /\ r1 < DaysBeforeMonth(y, k) + DaysInMonth(y, k)
    IN IF n1 = 4 \/ n100 = 4
       THEN [year |-> y - 1, month |-> 12, day |-> 31]
       ELSE [year |-> y, month |-> m, day |-> r1 - DaysBeforeMonth(y, m) + 1]

NoDt == [ord |-> 0, sec |-> 0, us |-> 0]
\* the outcome of an expression that may raise: a value, or the exception raised
Returns(dt) == [exc |-> "none", dt |-> dt]
Raises(e) == [exc |-> e, dt |-> NoDt]

\* datetime(year, month, day, hour, minute)
datetime(year, month, day, hour, minute) ==
    IF /\ year \in 1..9999
       /\ month \in 1..12
       /\ day \in 1..DaysInMonth(year, month)
       /\ hour \in 0..23
       /\ minute \in 0..59
    THEN Returns([ord |-> ymd2ord(year, month, day), sec |-> hour * 3600 + minute * 60,
                  us |-> 0])
    ELSE Raises("ValueError")

\* dt - timedelta(days=days, seconds=secs), with 0 <= secs < 86400
SubDelta(dt, days, secs) ==
    LET s2 == dt.sec - secs
        borrow == IF s2 < 0 THEN 1 ELSE 0
        ord2 == dt.ord - days - borrow
    IN IF ord2 < 1 \/ ord2 > 3652059
       THEN Raises("OverflowError")
       ELSE Returns([ord |-> ord2, sec |-> s2 + borrow * 86400, us |-> dt.us])

\* dt - timedelta(hours=n)
SubHours(dt, n) == SubDelta(dt, n \div 24, (n % 24) * 3600)
\* dt - timedelta(minutes=n)
SubMinutes(dt, n) == SubDelta(dt, n \div 1440, (n % 1440) * 60)

\* a < b and a <= b on datetimes
DtLess(a, b) ==
    \/ a.ord < b.ord
    \/ a.ord = b.ord /\ a.sec < b.sec
    \/ a.ord = b.ord /\ a.sec = b.sec /\ a.us < b.us
DtLeq(a, b) == a = b \/ DtLess(a, b)

\* dt.isoformat() + 'Z'
isoformatZ(dt) ==
    LET d == ord2ymd(dt.ord)
        base == Pad(d.year, 4) \o <<"-">> \o Pad(d.month, 2) \o <<"-">> \o Pad(d.day, 2)
                \o <<"T">> \o Pad(dt.sec \div 3600, 2) \o <<":">>
                \o Pad((dt.sec % 3600) \div 60, 2) \o <<":">> \o Pad(dt.sec % 60, 2)
    IN base \o (IF dt.us = 0 THEN <<>> ELSE <<".">> \o Pad(dt.us, 6)) \o <<"Z">>

\* the code point of a character of an ISO timestamp
CodePoint(c) ==
    CASE c = "-" -> 45 [] c = "." -> 46 [] c \in DigitChars -> 48 + DigitValue[c]
      [] c = ":" -> 58 [] c = "T" -> 84 [] c = "Z" -> 90

\* a < b on str: the first differing character decides, a proper prefix is smaller
StrLess(a, b) ==
    \E k \in 1..(Len(b)) :
        /\ k <= Len(a) + 1
        /\ \A j \in 1..(k - 1) : a[j] = b[j]
        /\ \/ k = Len(a) + 1
           \/ k <= Len(a) /\ CodePoint(a[k]) < CodePoint(b[k])

----------------------------------------------------------------------------
(* The regular expressions of parse_time *)

\* the group (\d+) of  mundhu \s+ (\d+) \s+ unit  matched at i, or <<>>
RelMatchAt(s, i, unit) ==
    LET a == i + Len(MUNDHU)
        b == RunEnd(s, a, SpaceChars)
        c == RunEnd(s, b, DigitChars)
        d == RunEnd(s, c, SpaceChars)
    IN IF HasAt(s, i, MUNDHU) /\ b > a /\ c > b /\ d > c /\ HasAt(s, d, unit)
       THEN SubSeq(s, b, c - 1)
       ELSE <<>>

\* re.search of that pattern: the group of the leftmost match, or <<>>
SearchRel(s, unit) ==
    LET hits == {i \in 1..Len(s) : RelMatchAt(s, i, unit) # <<>>}
    IN IF hits = {} THEN <<>>
       ELSE RelMatchAt(s, CHOOSE i \in hits : \A k \in hits : i <= k, unit)

\* how many digits \d{1,2} takes at i when `follow` must come next (0: no match)
Digits12(s, i, follow) ==
    IF i + 2 <= Len(s) /\ s[i] \in DigitChars /\ s[i + 1] \in DigitChars
       /\ s[i + 2] = follow
    THEN 2
    ELSE IF i + 1 <= Len(s) /\ s[i] \in DigitChars /\ s[i + 1] = follow
    THEN 1
    ELSE 0

\* the groups of (\d{1,2}):(\d{2})\s+(\d{1,2})-(\d{1,2})-(\d{4}) matched at i, or <<>>
AbsMatchAt(s, i) ==
    LET n1 == Digits12(s, i, ":")
        a == i + n1 + 1
        b == a + 2
        c == RunEnd(s, b, SpaceChars)
        n3 == Digits12(s, c, "-")
        d == c + n3 + 1
        n4 == Digits12(s, d, "-")
        e == d + n4 + 1
    IN IF /\ n1 > 0
          /\ a + 1 <= Len(s) /\ s[a] \in DigitChars /\ s[a + 1] \in DigitChars
          /\ c > b
          /\ n3 > 0
          /\ n4 > 0
          /\ e + 3 <= Len(s)
          /\ \A k \in e..(e + 3) : s[k] \in DigitChars
       THEN <<SubSeq(s, i, i + n1 - 1), SubSeq(s, a, a + 1), SubSeq(s, c, c + n3 - 1),
              SubSeq(s, d, d + n4 - 1), SubSeq(s, e, e + 3)>>
       ELSE <<>>

SearchAbs(s) ==
    LET hits == {i \in 1..Len(s) : AbsMatchAt(s, i) # <<>>}
    IN IF hits = {} THEN <<>>
       ELSE AbsMatchAt(s, CHOOSE i \in hits : \A k \in hits : i <= k)

\* a parser that tries the absolute form first
parse_time_absolute_first(time_str, now) ==
    LET s == strip(time_str)
        hours == SearchRel(s, SAAEA)
        minutes == SearchRel(s, DAQIQA)
        abs == SearchAbs(s)
    IN IF abs # <<>>
       THEN LET iraq_time == datetime(IntOf(abs[5]), IntOf(abs[4]), IntOf(abs[3]),
                                      IntOf(abs[1]), IntOf(abs[2]))
            IN IF iraq_time.exc # "none" THEN iraq_time ELSE SubHours(iraq_time.dt, 3)
       ELSE IF hours # <<>> THEN SubHours(now, IntOf(hours))
       ELSE IF minutes # <<>> THEN SubMinutes(now, IntOf(minutes))
       ELSE IF Contains(s, ONE_HOUR_AGO) \/ Contains(s, TWO_HOURS_AGO)
       THEN SubHours(now, IF Contains(s, WAHIDA) THEN 1 ELSE 2)
       ELSE Returns(now)

\* parse_time(time_str) when datetime.utcnow() reads `now`
parse_time(time_str, now) ==
    LET s == strip(time_str)
        hours == SearchRel(s, SAAEA)
        minutes == SearchRel(s, DAQIQA)
        abs == SearchAbs(s)
    IN IF hours # <<>> THEN SubHours(now, IntOf(hours))
       ELSE IF minutes # <<>> THEN SubMinutes(now, IntOf(minutes))
       ELSE IF Contains(s, ONE_HOUR_AGO) \/ Contains(s, TWO_HOURS_AGO)
       THEN SubHours(now, IF Contains(s, WAHIDA) THEN 1 ELSE 2)
       ELSE IF abs # <<>>
       THEN LET iraq_time == datetime(IntOf(abs[5]), IntOf(abs[4]), IntOf(abs[3]),
                                      IntOf(abs[1]), IntOf(abs[2]))
            IN IF iraq_time.exc # "none" THEN iraq_time ELSE SubHours(iraq_time.dt, 3)
       ELSE Returns(now)

----------------------------------------------------------------------------
(* The clock.  The run starts at 2024-01-01T12:00:00Z and every clock step  *)
(* is half a second, so that readings with and without a sub-second part    *)
(* both occur.                                                              *)

StartNow == [ord |-> ymd2ord(2024, 1, 1), sec |-> 12 * 3600, us |-> 0]

\* datetime.utcnow() after c clock steps
utcnow(c) ==
    [ord |-> StartNow.ord,
     sec |-> StartNow.sec + ((c * 500000) \div 1000000),
     us |-> (c * 500000) % 1000000]

----------------------------------------------------------------------------
(* Time texts *)

Num0 == <<"0">>
Num1 == <<"1">>
Num3 == <<"3">>
Num24 == <<"2", "4">>
Num25 == <<"2", "5">>
Num45 == <<"4", "5">>
NumHuge == <<"9", "9", "9", "9", "9", "9", "9", "9">>
GARBAGE == <<"g", "a", "r", "b", "a", "g", "e", " ", "t", "e", "x", "t">>

\* "mundhu <n> <unit>"
RelText(n, unit) == MUNDHU \o SP \o n \o SP \o unit
\* "HH:MM DD-MM-YYYY"
AbsText(h, mi, d, mo, y) == h \o <<":">> \o mi \o SP \o d \o <<"-">> \o mo \o <<"-">> \o y

RelTexts ==
    {MUNDHU \o ws1 \o n \o ws2 \o unit :
        ws1 \in {SP, <<" ", "\t">>, <<>>},
        n \in {Num0, Num1, Num3, Num24, Num25, Num45, NumHuge},
        ws2 \in {SP, <<>>},
        unit \in {SAAEAT, SAAEH, SAAEA, DAQIQA}}

AbsTexts ==
    {AbsText(h, mi, d, mo, y) :
        h \in {<<"1", "4">>, <<"9">>, <<"2", "5">>, <<"0", "0">>},
        mi \in {<<"3", "0">>, <<"6", "1">>},
        d \in {<<"0", "5">>, <<"3", "1">>, <<"1">>},
        mo \in {<<"0", "1">>, <<"2">>, <<"1", "3">>},
        y \in {<<"2", "0", "2", "4">>, <<"0", "0", "0", "0">>, <<"0", "0", "0", "1">>}}

ABS_1430 == AbsText(<<"1", "4">>, <<"3", "0">>, <<"0", "5">>, <<"0", "1">>, <<"2", "0", "2", "4">>)
ABS_INVALID == AbsText(<<"2", "5">>, <<"6", "1">>, <<"3", "1">>, <<"0", "2">>, <<"2", "0", "2", "4">>)

MixedTexts ==
    {ABS_1430 \o SP \o RelText(Num3, SAAEAT),
     RelText(Num3, SAAEAT) \o SP \o ABS_1430,
     ABS_1430 \o SP \o RelText(Num45, DAQIQA),
     RelText(Num45, DAQIQA) \o SP \o RelText(Num3, SAAEAT),
     ABS_1430 \o SP \o ONE_HOUR_AGO,
     ABS_1430 \o SP \o TWO_HOURS_AGO,
     TWO_HOURS_AGO \o SP \o WAHIDA,
     <<"1">> \o ABS_1430 \o <<"7">>,
     ABS_INVALID \o SP \o ABS_1430}

OtherTexts ==
    {ONE_HOUR_AGO, TWO_HOURS_AGO, GARBAGE, <<>>, SP, ABS_INVALID,
     SP \o ONE_HOUR_AGO \o SP, GARBAGE \o SP \o TWO_HOURS_AGO,
     SP \o RelText(Num3, SAAEAT) \o <<"\t">>}

TimeTexts == RelTexts \cup AbsTexts \cup MixedTexts \cup OtherTexts

NotParsed == [exc |-> "pending", dt |-> NoDt]

----------------------------------------------------------------------------
(* Sections, pages and cards *)

SECTION_KEYS == {"politics", "security", "economy"}

\* SECTIONS[key]['name_kr'], romanised
name_kr(section_key) ==
    CASE section_key = "politics" -> "JEONGCHI"
      [] section_key = "security" -> "ANBO"
      [] section_key = "economy" -> "GYEONGJE"

\* a round limit that lets one round too many through
max_scrolls_plus_one == 10 + 1

max_scrolls == 10
max_old_articles == 5

\* the section lists a command line is modelled to give (order kept, repeats kept)
SectionLists ==
    {<<"politics">>, <<"economy">>, <<"politics", "security">>, <<"politics", "politics">>}

\* the --hours values modelled
HoursChoices == {24, 0, -1}

BASE_ORIGIN == <<"https://www.faceiraq.org">>

REL_3H == RelText(Num3, SAAEAT)
REL_25H == RelText(Num25, SAAEAT)
\* 09:00 UTC of the start day
ABS_0900Z == AbsText(<<"1", "2">>, <<"0", "0">>, <<"0", "1">>, <<"0", "1">>, <<"2", "0", "2", "4">>)
\* 12:00 UTC of the day before the start day: the cutoff of a 24 hour window
ABS_CUTOFF == AbsText(<<"1", "5">>, <<"0", "0">>, <<"3", "1">>, <<"1", "2">>, <<"2", "0", "2", "3">>)

\* a div.v-card as crawl_section reads it: the p.article-title element (present or
\* not, and its text), the div.v-card-subtitle element, the img and the a[href]
Card(has_title, title_text, has_time, time_text, img, has_link, href) ==
    [has_title |-> has_title, title_text |-> title_text, has_time |-> has_time,
     time_text |-> time_text, img |-> img, has_link |-> has_link, href |-> href]

PlainCard(title_text, time_text) ==
    Card(TRUE, title_text, TRUE, time_text, "no_img", TRUE, <<"/article/1">>)

\* the cards a page of the section can show
PageCards(section_key) ==
    IF section_key = "politics"
    THEN {PlainCard(<<"A">>, t) : t \in {REL_3H, ABS_0900Z, REL_25H, ABS_INVALID}}
         \cup {PlainCard(<<" ", "A", " ">>, SP \o REL_3H)}
         \cup {PlainCard(<<"B">>, t) : t \in {ABS_0900Z, REL_25H}}
         \cup {Card(TRUE, <<"B">>, TRUE, ABS_CUTOFF, "no_title", TRUE,
                    <<"https://other.example", "/x">>)}
         \cup {Card(TRUE, <<"B">>, FALSE, <<>>, "INA", FALSE, <<>>)}
         \cup {Card(FALSE, <<>>, TRUE, REL_3H, "no_img", TRUE, <<"/article/1">>)}
    ELSE IF section_key = "security"
    THEN {PlainCard(<<"A">>, t) : t \in {REL_3H, REL_25H}}
    ELSE {PlainCard(<<" ">>, t) : t \in {REL_3H, REL_25H}}
         \cup {PlainCard(<<"C">>, GARBAGE)}

----------------------------------------------------------------------------
(* crawl_section, one card *)

\* card.find('div', class_='v-card-subtitle') and its get_text(strip=True), or ''
time_text_of(card) == IF card.has_time THEN strip(card.time_text) ELSE <<>>

\* title_elem.get_text(strip=True)
get_text(card) == strip(card.title_text)

\* the time texts of the cards of all pages
CardTimeTexts == {time_text_of(card) : card \in UNION {PageCards(k) : k \in SECTION_KEYS}}

\* self.parse_time(time_text) for the time texts of the cards at every reading of
\* the clock, computed once
ParsedAt ==
    [c \in 0..MaxTicks |-> [s \in CardTimeTexts |-> parse_time(s, utcnow(c))]]

\* publish_date = self.parse_time(time_text), or the exception it raises, when the
\* clock reads c
parse_card_time(card, c) == ParsedAt[c][time_text_of(card)]

\* the datetimes parse_time gives the cards
CardDates == {ParsedAt[c][s].dt : c \in 0..MaxTicks, s \in CardTimeTexts}

\* publish_date.isoformat() + 'Z' for the datetimes of the cards, computed once
IsoformatZOf == [dt \in CardDates |-> isoformatZ(dt)]

\* a window filter with an exclusive boundary
is_within_time_limit_strict(publish_date, cutoff) == DtLess(cutoff, publish_date)

\* return publish_date >= self.cutoff_time
is_within_time_limit(publish_date, cutoff) == DtLeq(cutoff, publish_date)

\* a duplicate check that finds nothing
is_duplicate_never(title, seen_titles) == FALSE

\* title in self.results[section_key]['seen_titles']
is_duplicate(title, seen_titles) == title \in seen_titles

\* a stale check that never ends the crawl
stale_limit_reached_never(old_count) == FALSE

\* old_articles_count >= max_old_articles
stale_limit_reached(old_count) == old_count >= max_old_articles

\* a count that takes an old card twice
count_old_twice(old_count) == old_count + 2

\* old_articles_count += 1
count_old(old_count) == old_count + 1

\* an accept that appends the article and forgets the title
add_title_forgets(title, seen_titles) == seen_titles

\* self.results[section_key]['seen_titles'].add(title)
add_title(title, seen_titles) == seen_titles \cup {title}

\* an except branch that takes the failed card for an old one
on_card_error_counts_old(entry, old_count) ==
    [kind |-> "old", why |-> "error", entry |-> entry, old |-> old_count + 1]

\* except Exception: continue
on_card_error(entry, old_count) ==
    [kind |-> "skip", why |-> "error", entry |-> entry, old |-> old_count]

\* the dict built for an accepted card; publish_instant is the datetime the
\* publishDate string was formatted from, kept for the properties
Article(section_key, card, publish_date) ==
    [section |-> name_kr(section_key),
     section_key |-> section_key,
     title |-> get_text(card),
     publishDate |-> IsoformatZOf[publish_date],
     timeText |-> time_text_of(card),
     source |-> IF card.img \in {"no_img", "no_title"} THEN "Unknown" ELSE card.img,
     url |-> IF card.has_link THEN BASE_ORIGIN \o card.href ELSE <<>>,
     publish_instant |-> publish_date]

\* what the body of the for loop does with one card, given the section's entry of
\* self.results, old_articles_count and the outcome `parsed` of
\* self.parse_time(time_text), which is reached only for a new title:
\*   "skip"    continue (no title element, duplicate, or the except branch)
\*   "old"     out of the window, counted, continue
\*   "return"  out of the window, counted, return
\*   "accept"  appended
\* and `why` tells the three ways to skip apart ("no_title", "duplicate", "error")
CardOutcome(section_key, card, parsed, entry, old_count, cutoff) ==
    IF ~card.has_title
    THEN [kind |-> "skip", why |-> "no_title", entry |-> entry, old |-> old_count]
    ELSE IF is_duplicate(get_text(card), entry.seen_titles)
    THEN [kind |-> "skip", why |-> "duplicate", entry |-> entry, old |-> old_count]
    ELSE IF parsed.exc # "none"
    THEN on_card_error(entry, old_count)
    ELSE IF ~is_within_time_limit(parsed.dt, cutoff)
    THEN [kind |-> IF stale_limit_reached(count_old(old_count)) THEN "return" ELSE "old",
          why |-> "old", entry |-> entry, old |-> count_old(old_count)]
    ELSE [kind |-> "accept", why |-> "accept",
          entry |-> [articles |-> Append(entry.articles,
                                         Article(section_key, card, parsed.dt)),
                     seen_titles |-> add_title(get_text(card), entry.seen_titles)],
          old |-> old_count]

----------------------------------------------------------------------------
(* save_results *)

\* articles.sort(key=lambda x: x.get('publishDate', ''), reverse=True): a stable
\* sort by the publishDate string, greatest first.  The element at i goes behind
\* every element with a greater key and behind the earlier elements with an equal key.
sort_reverse(articles) ==
    LET n == Len(articles)
        key(i) == articles[i].publishDate
        place(i) ==
            1 + Cardinality({j \in 1..n : StrLess(key(i), key(j))})
              + Cardinality({j \in 1..(i - 1) : key(j) = key(i)})
    IN [p \in 1..n |-> articles[CHOOSE i \in 1..n : place(i) = p]]

----------------------------------------------------------------------------
(* The session: __init__ and run() *)

Range(f) == {f[i] : i \in DOMAIN f}

current_section == target_sections[sec_idx]

\* the entry __init__ makes for a section
FreshEntry == [articles |-> <<>>, seen_titles |-> {}]

\* a session with one seen_titles set for all its sections
section_entry_shared(section_key) ==
    [articles |-> results[section_key].articles,
     seen_titles |-> UNION {results[k].seen_titles : k \in DOMAIN results}]

\* self.results[section_key]
section_entry(section_key) == results[section_key]

\* what crawl_section starts from in a session that crawls this section only:
\* the entry of __init__ and the locals of lines 152-155
FreshAlone == [entry |-> FreshEntry, old |-> 0, scrolls |-> 0, exit |-> "none"]

\* the crawl alone is no longer followed: it differed from the crawl of this session
Differs == [entry |-> FreshEntry, old |-> 0, scrolls |-> 0, exit |-> "differs"]

\* the crawl alone, compared with the crawl of this session in the state `entry`,
\* `old_count`, `scrolls`
compared(sole, entry, old_count, scrolls) ==
    IF sole.entry = entry /\ sole.old = old_count /\ sole.scrolls = scrolls
    THEN sole
    ELSE Differs

\* the crawl alone ends (its locals are gone) as the crawl of this session ends
alone_ends(how, entry) ==
    IF alone.exit # "none" THEN Differs
    ELSE compared([entry |-> alone.entry, old |-> 0, scrolls |-> 0, exit |-> how],
                  entry, 0, 0)

Init ==
    /\ clock = 0
    /\ hours_limit \in HoursChoices
    /\ cutoff_time = SubHours(utcnow(0), hours_limit).dt
    /\ target_sections \in SectionLists
    /\ results = [k \in Range(target_sections) |-> FreshEntry]
    /\ runpc = "crawl_loop"
    /\ sec_idx = 1
    /\ cpc = "idle"
    /\ scroll_count = 0
    /\ old_articles_count = 0
    /\ card_idx = 0
    /\ quits = 0
    /\ driver_ops = 0
    /\ used_after_quit = FALSE
    /\ saved = <<>>
    /\ logged = FALSE
    /\ failed_at = 0
    /\ failed_in = "none"
    /\ last_exit = "none"
    /\ rounds_done = 0
    /\ scrolls_done = 0
    /\ caught = FALSE
    /\ stale_titles = {}
    /\ alone = FreshAlone
    /\ p_text = <<>>
    /\ p_result = NotParsed

config == <<hours_limit, cutoff_time, target_sections>>
parse_vars == <<p_text, p_result>>
locals == <<cpc, scroll_count, old_articles_count, card_idx, rounds_done, scrolls_done,
            caught, stale_titles>>

\* the clock moves on while the program runs
Tick ==
    /\ runpc # "exited"
    /\ clock < MaxTicks
    /\ clock' = clock + 1
    /\ UNCHANGED <<results, runpc, sec_idx, quits, driver_ops, used_after_quit, saved,
                   logged, failed_at, failed_in, last_exit>>
    /\ UNCHANGED <<locals, config, parse_vars, alone>>

\* an exception leaves the try block of run()
raise_in_run(step) ==
    /\ runpc' = "except"
    /\ failed_at' = sec_idx
    /\ failed_in' = step

\* the frame of crawl_section is gone: its locals hold nothing any more
drop_locals ==
    /\ cpc' = "idle"
    /\ scroll_count' = 0
    /\ old_articles_count' = 0
    /\ card_idx' = 0
    /\ rounds_done' = 0
    /\ scrolls_done' = 0
    /\ caught' = FALSE
    /\ stale_titles' = {}

\* crawl_section returns to the for loop of run()
return_from_crawl(how) ==
    /\ drop_locals
    /\ last_exit' = how
    /\ runpc' = "crawl_loop"
    /\ sec_idx' = sec_idx + 1
    /\ UNCHANGED <<failed_at, failed_in>>

\* an exception leaves crawl_section and the try block of run()
raise_in_crawl ==
    /\ drop_locals
    /\ alone' = alone_ends("error", results[current_section])
    /\ last_exit' = "error"
    /\ raise_in_run("crawl")
    /\ UNCHANGED sec_idx

\* run(): the first for loop calls crawl_section(section_key), which starts with
\* driver.get(url) and the first settle delay
RunCrawlCall ==
    /\ runpc = "crawl_loop"
    /\ sec_idx <= Len(target_sections)
    /\ driver_ops' = driver_ops + 1
    /\ used_after_quit' = (used_after_quit \/ quits > 0)
    /\ \/ /\ runpc' = "crawling"
          /\ cpc' = "while"
          /\ scroll_count' = 0
          /\ old_articles_count' = 0
          /\ card_idx' = 0
          /\ rounds_done' = 0
          /\ scrolls_done' = 0
          /\ caught' = FALSE
          /\ stale_titles' = {}
          /\ alone' = compared(FreshAlone, results[current_section], 0, 0)
          /\ last_exit' = "none"
          /\ UNCHANGED <<sec_idx, failed_at, failed_in>>
       \/ raise_in_crawl
    /\ UNCHANGED <<clock, results, quits, saved, logged>>
    /\ UNCHANGED <<config, parse_vars>>

\* while scroll_count < max_scrolls: read driver.page_source and find the cards
CrawlFetch ==
    /\ runpc = "crawling"
    /\ cpc = "while"
    /\ scroll_count < max_scrolls
    /\ used_after_quit' = (used_after_quit \/ quits > 0)
    /\ \/ /\ cpc' = "cards"
          /\ card_idx' = 0
          /\ rounds_done' = rounds_done + 1
          /\ UNCHANGED <<runpc, sec_idx, failed_at, failed_in, last_exit, scroll_count,
                         old_articles_count, scrolls_done, caught, stale_titles, alone>>
       \/ raise_in_crawl
    /\ UNCHANGED <<clock, results, quits, driver_ops, saved, logged>>
    /\ UNCHANGED <<config, parse_vars>>

\* the while loop ends: crawl_section returns
CrawlExit ==
    /\ runpc = "crawling"
    /\ cpc = "while"
    /\ ~(scroll_count < max_scrolls)
    /\ return_from_crawl("rounds")
    /\ alone' = IF alone.scrolls < max_scrolls
                THEN Differs
                ELSE alone_ends("rounds", results[current_section])
    /\ UNCHANGED <<clock, results, quits, driver_ops, used_after_quit, saved, logged>>
    /\ UNCHANGED <<config, parse_vars>>

\* one iteration of for card in cards
CrawlCard ==
    /\ runpc = "crawling"
    /\ cpc = "cards"
    /\ card_idx < MaxCards
    /\ \E card \in PageCards(current_section) :
       \E parsed \in {parse_card_time(card, clock)} :
       \E out \in {CardOutcome(current_section, card, parsed,
                               section_entry(current_section), old_articles_count,
                               cutoff_time)} :
       \E sole \in {IF alone.entry = section_entry(current_section)
                       /\ alone.old = old_articles_count
                    THEN out
                    ELSE CardOutcome(current_section, card, parsed, alone.entry,
                                     alone.old, cutoff_time)} :
             /\ results' = [results EXCEPT ![current_section] = out.entry]
             /\ alone' = IF alone.exit # "none" \/ sole.kind # out.kind THEN Differs
                         ELSE IF sole.kind = "return"
                         THEN compared([entry |-> sole.entry, old |-> 0, scrolls |-> 0,
                                        exit |-> "stale"], out.entry, 0, 0)
                         ELSE compared([alone EXCEPT !.entry = sole.entry,
                                                     !.old = sole.old],
                                       out.entry, out.old, scroll_count)
             /\ IF out.kind = "return"
                THEN return_from_crawl("stale")
                ELSE /\ old_articles_count' = out.old
                     /\ card_idx' = card_idx + 1
                     /\ caught' = (caught \/ out.why = "error")
                     /\ stale_titles' = IF out.why = "old"
                                        THEN stale_titles \cup {get_text(card)}
                                        ELSE stale_titles
                     /\ UNCHANGED <<cpc, runpc, sec_idx, scroll_count, rounds_done,
                                    scrolls_done, failed_at, failed_in, last_exit>>
    /\ UNCHANGED <<clock, quits, driver_ops, used_after_quit, saved, logged>>
    /\ UNCHANGED <<config, parse_vars>>

\* the for loop is through the cards: scroll, settle, scroll_count += 1
CrawlScroll ==
    /\ runpc = "crawling"
    /\ cpc = "cards"
    /\ used_after_quit' = (used_after_quit \/ quits > 0)
    /\ \/ /\ scroll_count' = scroll_count + 1
          /\ scrolls_done' = scrolls_done + 1
          /\ cpc' = "while"
          /\ caught' = FALSE
          /\ alone' = IF alone.exit # "none" THEN Differs
                      ELSE compared([alone EXCEPT !.scrolls = alone.scrolls + 1],
                                    results[current_section], old_articles_count,
                                    scroll_count + 1)
          /\ UNCHANGED <<runpc, sec_idx, failed_at, failed_in, last_exit,
                         old_articles_count, card_idx, rounds_done, stale_titles>>
       \/ raise_in_crawl
    /\ UNCHANGED <<clock, results, quits, driver_ops, saved, logged>>
    /\ UNCHANGED <<config, parse_vars>>

\* run(): the first for loop is through the sections
RunCrawlDone ==
    /\ runpc = "crawl_loop"
    /\ sec_idx > Len(target_sections)
    /\ runpc' = "save_loop"
    /\ sec_idx' = 1
    /\ UNCHANGED <<clock, results, quits, driver_ops, used_after_quit, saved, logged,
                   failed_at, failed_in, last_exit>>
    /\ UNCHANGED <<locals, config, parse_vars, alone>>

\* a save loop that writes the files of every section
has_articles_always(articles) == TRUE

\* if self.results[section_key]['articles']
has_articles(articles) == articles # <<>>

\* run(): one iteration of the second for loop: save_results(section_key) when the
\* section has articles; the sort is in place and comes before the files are written
RunSave ==
    /\ runpc = "save_loop"
    /\ sec_idx <= Len(target_sections)
    /\ \E articles \in {results[current_section].articles} :
       \E sorted \in {sort_reverse(articles)} :
          IF ~has_articles(articles)
          THEN /\ sec_idx' = sec_idx + 1
               /\ UNCHANGED <<results, saved, runpc, failed_at, failed_in>>
          ELSE /\ results' = [results EXCEPT ![current_section].articles = sorted]
               /\ \/ /\ saved' = Append(saved, [section_key |-> current_section,
                                                 accepted |-> articles,
                                                 articles |-> sorted])
                     /\ sec_idx' = sec_idx + 1
                     /\ UNCHANGED <<runpc, failed_at, failed_in>>
                  \/ /\ raise_in_run("save")
                     /\ UNCHANGED <<saved, sec_idx>>
    /\ UNCHANGED <<clock, quits, driver_ops, used_after_quit, logged, last_exit>>
    /\ UNCHANGED <<locals, config, parse_vars, alone>>

\* run(): the second for loop is through the sections
RunSaveDone ==
    /\ runpc = "save_loop"
    /\ sec_idx > Len(target_sections)
    /\ runpc' = "summary"
    /\ UNCHANGED <<clock, results, sec_idx, quits, driver_ops, used_after_quit, saved,
                   logged, failed_at, failed_in, last_exit>>
    /\ UNCHANGED <<locals, config, parse_vars, alone>>

\* run(): print_summary()
RunSummary ==
    /\ runpc = "summary"
    /\ \/ runpc' = "finally" /\ UNCHANGED <<failed_at, failed_in>>
       \/ raise_in_run("summary")
    /\ UNCHANGED <<clock, results, sec_idx, quits, driver_ops, used_after_quit, saved,
                   logged, last_exit>>
    /\ UNCHANGED <<locals, config, parse_vars, alone>>

\* an except branch that leaves run() at once, as if the driver were released at
\* the end of the try block
RunExcept_no_finally ==
    /\ runpc = "except"
    /\ logged' = TRUE
    /\ runpc' = "exited"
    /\ UNCHANGED <<clock, results, sec_idx, quits, driver_ops, used_after_quit, saved,
                   failed_at, failed_in, last_exit>>
    /\ UNCHANGED <<locals, config, parse_vars, alone>>

\* an except branch inside the for loop: the session goes on with the next section
RunExcept_next_section ==
    /\ runpc = "except"
    /\ logged' = TRUE
    /\ IF failed_in = "crawl"
       THEN runpc' = "crawl_loop" /\ sec_idx' = sec_idx + 1
       ELSE runpc' = "finally" /\ sec_idx' = sec_idx
    /\ UNCHANGED <<clock, results, quits, driver_ops, used_after_quit, saved,
                   failed_at, failed_in, last_exit>>
    /\ UNCHANGED <<locals, config, parse_vars, alone>>

\* run(): except Exception: print the error and the traceback
RunExcept ==
    /\ runpc = "except"
    /\ logged' = TRUE
    /\ runpc' = "finally"
    /\ UNCHANGED <<clock, results, sec_idx, quits, driver_ops, used_after_quit, saved,
                   failed_at, failed_in, last_exit>>
    /\ UNCHANGED <<locals, config, parse_vars, alone>>

\* run(): finally: self.driver.quit()
RunFinally ==
    /\ runpc = "finally"
    /\ quits' = quits + 1
    /\ runpc' = "exited"
    /\ UNCHANGED <<clock, results, sec_idx, driver_ops, used_after_quit, saved, logged,
                   failed_at, failed_in, last_exit>>
    /\ UNCHANGED <<locals, config, parse_vars, alone>>

Next ==
    \/ Tick
    \/ RunCrawlCall
    \/ CrawlFetch
    \/ CrawlExit
    \/ CrawlCard
    \/ CrawlScroll
    \/ RunCrawlDone
    \/ RunSave
    \/ RunSaveDone
    \/ RunSummary
    \/ RunExcept
    \/ RunFinally

Spec == Init /\ [][Next]_vars

\* crawl_section is sequential and waits for nothing but its fixed settle delays:
\* a page is read once the loop condition holds, the for loop over the finite list
\* of cards comes to its end and scrolls, and the function returns once the loop
\* condition fails
FairSpec ==
    /\ Spec
    /\ WF_vars(CrawlFetch)
    /\ WF_vars(CrawlScroll)
    /\ WF_vars(CrawlExit)

----------------------------------------------------------------------------
(* parse_time on its own: any text of TimeTexts at any clock reading *)

ParseInit ==
    /\ clock \in 0..MaxTicks
    /\ hours_limit = 24
    /\ cutoff_time = SubHours(utcnow(0), 24).dt
    /\ target_sections = <<"politics">>
    /\ results = [k \in {"politics"} |-> FreshEntry]
    /\ runpc = "exited"
    /\ sec_idx = 1
    /\ cpc = "idle"
    /\ scroll_count = 0
    /\ old_articles_count = 0
    /\ card_idx = 0
    /\ quits = 0
    /\ driver_ops = 0
    /\ used_after_quit = FALSE
    /\ saved = <<>>
    /\ logged = FALSE
    /\ failed_at = 0
    /\ failed_in = "none"
    /\ last_exit = "none"
    /\ rounds_done = 0
    /\ scrolls_done = 0
    /\ caught = FALSE
    /\ stale_titles = {}
    /\ alone = FreshAlone
    /\ p_text \in TimeTexts
    /\ p_result = NotParsed

ParseCall ==
    /\ p_result = NotParsed
    /\ p_result' = parse_time(p_text, utcnow(clock))
    /\ UNCHANGED <<clock, hours_limit, cutoff_time, target_sections, results, runpc,
                   sec_idx, cpc, scroll_count, old_articles_count, card_idx, quits,
                   driver_ops, used_after_quit, saved, logged, failed_at, failed_in,
                   last_exit, rounds_done, scrolls_done, caught, stale_titles, alone,
                   p_text>>

ParseNext == ParseCall

ParseSpec == ParseInit /\ [][ParseNext]_vars

----------------------------------------------------------------------------
(* Properties *)

AllArticles == UNION {Range(results[k].articles) : k \in DOMAIN results}

\* C1: in every reachable state no two articles of a section's accepted sequence
\* have the same title, whatever cards the rounds show and however often a title
\* comes back
C1_NoDuplicateTitles ==
    \A k \in DOMAIN results :
        \A i, j \in 1..Len(results[k].articles) :
            i # j => results[k].articles[i].title # results[k].articles[j].title

\* both titles of the politics pages are accepted and later rounds went through
\* full pages of cards without accepting or counting any
C1_Witness ==
    /\ runpc = "crawling"
    /\ current_section = "politics"
    /\ Len(results["politics"].articles) = 2
    /\ scroll_count >= 2
    /\ card_idx = MaxCards
    /\ old_articles_count = 0

\* C2: the card that raises old_articles_count to max_old_articles (5) ends the
\* crawl at once: a running crawl never holds a count of 5, and the step that would
\* reach 5 returns to run() without accepting, scrolling or fetching
C2_StaleStopsCrawl ==
    /\ [](runpc = "crawling" => old_articles_count < 5)
    /\ [][(/\ runpc = "crawling"
           /\ cpc = "cards"
           /\ old_articles_count = 4
           /\ old_articles_count' # 4
           /\ runpc' # "except")
          => (/\ runpc' = "crawl_loop"
              /\ cpc' = "idle"
              /\ last_exit' = "stale"
              /\ sec_idx' = sec_idx + 1
              /\ results' = results
              /\ driver_ops' = driver_ops)]_vars

\* a crawl was ended by the stale count while cards and rounds were left, and the
\* session is back in run() with a section still to crawl
C2_Witness ==
    /\ last_exit = "stale"
    /\ runpc = "crawl_loop"
    /\ sec_idx = 2
    /\ Len(target_sections) = 2

\* C3: the window filter is inclusive: every accepted article has
\* publish_instant >= cutoff_time, and a card with a new title whose time parses
\* is accepted, without counting as old, exactly when its instant is >= cutoff_time
C3_WindowInclusive ==
    /\ \A a \in AllArticles : ~DtLess(a.publish_instant, cutoff_time)
    /\ (runpc = "crawling" /\ cpc = "cards") =>
          \A card \in PageCards(current_section) :
          \A parsed \in {parse_card_time(card, clock)} :
          \A out \in {CardOutcome(current_section, card, parsed,
                                   results[current_section], old_articles_count,
                                   cutoff_time)} :
             (/\ card.has_title
              /\ get_text(card) \notin results[current_section].seen_titles
              /\ parsed.exc = "none")
             => /\ (out.kind = "accept") = ~DtLess(parsed.dt, cutoff_time)
                /\ (out.kind = "accept") => out.old = old_articles_count
                /\ (out.kind # "accept") => out.old = old_articles_count + 1

\* an article whose instant is exactly the cutoff has been accepted
C3_Witness == \E a \in AllArticles : a.publish_instant = cutoff_time

\* C4: every crawl of a section ends; it ends by the stale count reaching 5 or by
\* scroll_count reaching max_scrolls (10), whichever comes first; scroll_count never
\* exceeds 10, at most 10 pages are extracted, and scroll_count counts the
\* completed scroll requests
C4_CrawlTerminates ==
    /\ [](/\ scroll_count <= 10
          /\ rounds_done <= 10
          /\ scrolls_done = scroll_count)
    /\ [][(runpc = "crawling" /\ runpc' = "crawl_loop")
          => \/ cpc = "cards" /\ old_articles_count = 4 /\ last_exit' = "stale"
             \/ cpc = "while" /\ scroll_count = 10 /\ last_exit' = "rounds"]_vars
    /\ (runpc = "crawling") ~> (runpc # "crawling")

\* a crawl went through all 10 rounds and returned
C4_Witness ==
    /\ last_exit = "rounds"
    /\ runpc = "crawl_loop"
    /\ sec_idx = 2
    /\ results[target_sections[1]].articles # <<>>

SavedKeys == [k \in DOMAIN saved |-> saved[k].section_key]
NonEmptyUpTo(n) ==
    SelectSeq(SubSeq(target_sections, 1, n), LAMBDA key : results[key].articles # <<>>)

\* C5 as stated: a section's non-empty collection is handed to the file writers
\* before the crawl of the next section begins
C5_OutputBeforeNextCrawl ==
    runpc = "crawling" =>
        \A i \in 1..(sec_idx - 1) :
            results[target_sections[i]].articles # <<>>
            => \E k \in DOMAIN saved : saved[k].section_key = target_sections[i]

\* C5, amended: the collections are handed to the file writers only after the
\* crawls of all sections have returned and no crawl follows; they are handed over in
\* the configured order, sorted by the publishDate string, greatest first, and a
\* section without articles is never handed over
C5_OutputAfterAllCrawls ==
    /\ saved # <<>> =>
          /\ runpc \in {"save_loop", "summary", "except", "finally", "exited"}
          /\ driver_ops = Len(target_sections)
          /\ last_exit \in {"stale", "rounds"}
    /\ \A k \in DOMAIN saved :
          /\ saved[k].articles # <<>>
          /\ Len(saved[k].articles) = Len(saved[k].accepted)
          /\ Range(saved[k].articles) = Range(saved[k].accepted)
          /\ \A i, j \in 1..Len(saved[k].articles) :
                i < j => ~StrLess(saved[k].articles[i].publishDate,
                                  saved[k].articles[j].publishDate)
    /\ runpc = "save_loop" => SavedKeys = NonEmptyUpTo(sec_idx - 1)
    /\ runpc = "summary" => SavedKeys = NonEmptyUpTo(Len(target_sections))

\* a session over two sections is through its save loop: the section with articles
\* was handed over, the one without was not
C5_Witness ==
    /\ runpc = "summary"
    /\ target_sections = <<"politics", "security">>
    /\ results["politics"].articles # <<>>
    /\ results["security"].articles = <<>>
    /\ Len(saved) = 1

\* C6: on every way out of run() the driver is released exactly once, and nothing
\* uses the driver or moves on after the release
C6_ReleasedOnce ==
    /\ quits <= 1
    /\ runpc = "exited" => quits = 1
    /\ quits = 1 => runpc = "exited"
    /\ ~used_after_quit

\* run() was left through the except branch, after a failure in the crawl of the
\* second section, with the driver released
C6_Witness ==
    /\ runpc = "exited"
    /\ failed_in = "crawl"
    /\ failed_at = 2
    /\ quits = 1

\* C7: when the driver raises during the crawl of section i, the error is printed by
\* run(), no later section is crawled, nothing is saved, and run() goes on to
\* release the driver
C7_FailureStopsSession ==
    failed_in = "crawl" =>
        /\ runpc \in {"except", "finally", "exited"}
        /\ driver_ops = failed_at
        /\ sec_idx = failed_at
        /\ saved = <<>>
        /\ runpc \in {"finally", "exited"} => logged
        /\ runpc = "exited" => quits = 1

\* the crawl of the first of two sections failed after an article was accepted, and
\* run() is left
C7_Witness ==
    /\ failed_in = "crawl"
    /\ failed_at = 1
    /\ Len(target_sections) = 2
    /\ results[target_sections[1]].articles # <<>>
    /\ runpc = "exited"

\* the place of article x in the sequence acc
PlaceIn(acc, x) == CHOOSE p \in 1..Len(acc) : acc[p] = x

\* C8: the sequence written for a section is the accepted articles, newest first by
\* publish_instant, and articles with equal instants keep their insertion order
C8_SavedNewestFirst ==
    \A k \in DOMAIN saved :
        \A i, j \in 1..Len(saved[k].articles) :
            i < j =>
                /\ DtLeq(saved[k].articles[j].publish_instant,
                         saved[k].articles[i].publish_instant)
                /\ saved[k].articles[j].publish_instant
                       = saved[k].articles[i].publish_instant
                   => PlaceIn(saved[k].accepted, saved[k].articles[i])
                          < PlaceIn(saved[k].accepted, saved[k].articles[j])

\* C9: parse_time returns an instant for every text and raises nothing
C9_ParseNeverRaises == p_result.exc \in {"pending", "none"}

\* texts and the ISO form of their parse_time at 2024-01-01T12:00:00Z
ParseTableAtStart ==
    {<<RelText(Num3, SAAEAT),
       <<"2", "0", "2", "4", "-", "0", "1", "-", "0", "1", "T", "0", "9", ":", "0", "0", ":", "0", "0", "Z">>>>,
     <<RelText(Num45, DAQIQA),
       <<"2", "0", "2", "4", "-", "0", "1", "-", "0", "1", "T", "1", "1", ":", "1", "5", ":", "0", "0", "Z">>>>,
     <<ONE_HOUR_AGO,
       <<"2", "0", "2", "4", "-", "0", "1", "-", "0", "1", "T", "1", "1", ":", "0", "0", ":", "0", "0", "Z">>>>,
     <<TWO_HOURS_AGO,
       <<"2", "0", "2", "4", "-", "0", "1", "-", "0", "1", "T", "1", "0", ":", "0", "0", ":", "0", "0", "Z">>>>,
     <<ABS_1430,
       <<"2", "0", "2", "4", "-", "0", "1", "-", "0", "5", "T", "1", "1", ":", "3", "0", ":", "0", "0", "Z">>>>,
     <<GARBAGE,
       <<"2", "0", "2", "4", "-", "0", "1", "-", "0", "1", "T", "1", "2", ":", "0", "0", ":", "0", "0", "Z">>>>,
     <<ABS_1430 \o SP \o RelText(Num3, SAAEAT),
       <<"2", "0", "2", "4", "-", "0", "1", "-", "0", "1", "T", "0", "9", ":", "0", "0", ":", "0", "0", "Z">>>>,
     <<RelText(Num3, SAAEAT) \o SP \o ABS_1430,
       <<"2", "0", "2", "4", "-", "0", "1", "-", "0", "1", "T", "0", "9", ":", "0", "0", ":", "0", "0", "Z">>>>,
     <<ABS_1430 \o SP \o RelText(Num45, DAQIQA),
       <<"2", "0", "2", "4", "-", "0", "1", "-", "0", "1", "T", "1", "1", ":", "1", "5", ":", "0", "0", "Z">>>>,
     <<RelText(Num45, DAQIQA) \o SP \o RelText(Num3, SAAEAT),
       <<"2", "0", "2", "4", "-", "0", "1", "-", "0", "1", "T", "0", "9", ":", "0", "0", ":", "0", "0", "Z">>>>,
     <<ABS_1430 \o SP \o ONE_HOUR_AGO,
       <<"2", "0", "2", "4", "-", "0", "1", "-", "0", "1", "T", "1", "1", ":", "0", "0", ":", "0", "0", "Z">>>>,
     <<ABS_1430 \o SP \o TWO_HOURS_AGO,
       <<"2", "0", "2", "4", "-", "0", "1", "-", "0", "1", "T", "1", "0", ":", "0", "0", ":", "0", "0", "Z">>>>}

\* the same, half a second later
ParseTableHalfSecondLater ==
    {<<RelText(Num3, SAAEAT),
       <<"2", "0", "2", "4", "-", "0", "1", "-", "0", "1", "T", "0", "9", ":", "0", "0", ":", "0", "0", ".", "5", "0", "0", "0", "0", "0", "Z">>>>,
     <<ABS_1430,
       <<"2", "0", "2", "4", "-", "0", "1", "-", "0", "5", "T", "1", "1", ":", "3", "0", ":", "0", "0", "Z">>>>,
     <<GARBAGE,
       <<"2", "0", "2", "4", "-", "0", "1", "-", "0", "1", "T", "1", "2", ":", "0", "0", ":", "0", "0", ".", "5", "0", "0", "0", "0", "0", "Z">>>>,
     <<ABS_1430 \o SP \o RelText(Num3, SAAEAT),
       <<"2", "0", "2", "4", "-", "0", "1", "-", "0", "1", "T", "0", "9", ":", "0", "0", ":", "0", "0", ".", "5", "0", "0", "0", "0", "0", "Z">>>>}

\* C10: the parse table of the specification at now = 2024-01-01T12:00:00Z, and the
\* order of the forms: numeric hours, numeric minutes, the one/two-hour idiom, the
\* absolute form (UTC+3 taken off), then now; the first form that matches decides
C10_ParseTable ==
    p_result # NotParsed =>
        /\ clock = 0 =>
              \A row \in ParseTableAtStart :
                  p_text = row[1]
                  => p_result.exc = "none" /\ isoformatZ(p_result.dt) = row[2]
        /\ clock = 1 =>
              \A row \in ParseTableHalfSecondLater :
                  p_text = row[1]
                  => p_result.exc = "none" /\ isoformatZ(p_result.dt) = row[2]

\* a text with an absolute form before a numeric relative form was parsed as the
\* relative form
C10_Witness ==
    /\ clock = 0
    /\ p_text = ABS_1430 \o SP \o RelText(Num3, SAAEAT)
    /\ p_result = Returns([ord |-> 738886, sec |-> 32400, us |-> 0])

\* the counts N of the numeric relative texts
HourCounts == {Num0, Num1, Num3, Num24, Num25, Num45, NumHuge}

\* C11: "mundhu N saaeat" (plural) and "mundhu N saaeh" (singular) are both parsed as
\* now - N hours, for every N for which that instant exists
C11_SingularAndPluralHours ==
    p_result # NotParsed =>
        \A n \in HourCounts : \A unit \in {SAAEAT, SAAEH} :
            (p_text = RelText(n, unit) /\ SubHours(utcnow(clock), IntOf(n)).exc = "none")
            => p_result = SubHours(utcnow(clock), IntOf(n))

\* the text matches none of the forms of parse_time
Unparsable(time_str) ==
    \E s \in {strip(time_str)} :
        /\ SearchRel(s, SAAEA) = <<>>
        /\ SearchRel(s, DAQIQA) = <<>>
        /\ ~Contains(s, ONE_HOUR_AGO)
        /\ ~Contains(s, TWO_HOURS_AGO)
        /\ SearchAbs(s) = <<>>

\* C12: whatever the hours window and the moment of the run, a card with a new,
\* non-empty title whose time text matches no form is parsed as now, is accepted and
\* does not count as old
C12_FailOpen ==
    (runpc = "crawling" /\ cpc = "cards") =>
        \A card \in PageCards(current_section) :
        \A parsed \in {parse_card_time(card, clock)} :
        \A out \in {CardOutcome(current_section, card, parsed,
                                 section_entry(current_section), old_articles_count,
                                 cutoff_time)} :
            (/\ card.has_title
             /\ get_text(card) # <<>>
             /\ get_text(card) \notin results[current_section].seen_titles
             /\ Unparsable(time_text_of(card)))
            => /\ parsed = Returns(utcnow(clock))
               /\ out.kind = "accept"
               /\ out.old = old_articles_count

\* the isolation of a crawl: while it runs, the crawl of the section alone has not
\* differed from it, and when it has returned, the crawl alone has returned the same
\* way with the same articles and seen titles
Isolated ==
    /\ runpc = "crawling" =>
          /\ alone.exit = "none"
          /\ alone.entry = results[current_section]
          /\ alone.old = old_articles_count
          /\ alone.scrolls = scroll_count
    /\ (runpc = "crawl_loop" /\ sec_idx > 1) =>
          /\ alone.exit = last_exit
          /\ alone.entry = results[target_sections[sec_idx - 1]]

\* C13: in a session over different sections, the crawl of each section goes as the
\* crawl of that section alone: same articles, same seen titles, same old count, same
\* rounds and same way out; what an earlier section saw or counted has no effect,
\* and a crawl writes the entry of no other section
C13_SectionIsolation ==
    /\ []((\A i, j \in DOMAIN target_sections :
               i # j => target_sections[i] # target_sections[j])
          => Isolated)
    /\ [][runpc = "crawling" =>
            \A k \in DOMAIN results :
                k # current_section => results'[k] = results[k]]_vars

\* the second of two different sections has accepted a title that the first section
\* has accepted too, and its crawl has returned
C13_Witness ==
    /\ target_sections = <<"politics", "security">>
    /\ runpc = "crawl_loop"
    /\ sec_idx = 3
    /\ <<"A">> \in results["politics"].seen_titles
    /\ <<"A">> \in results["security"].seen_titles
    /\ alone.exit = "rounds"

\* the absolute origins a href can start with
AbsoluteOrigins == {"https://www.faceiraq.org", "https://other.example"}

\* the url the claim gives a card
ExpectedUrl(card) ==
    IF ~card.has_link THEN <<>>
    ELSE IF card.href # <<>> /\ card.href[1] \in AbsoluteOrigins THEN card.href
    ELSE BASE_ORIGIN \o card.href

\* C14: the url of an accepted article is the base origin followed by a relative
\* href, an absolute href unchanged, and empty when the card has no link
C14_UrlAbsolute ==
    (runpc = "crawling" /\ cpc = "cards") =>
        \A card \in PageCards(current_section) :
        \A parsed \in {parse_card_time(card, clock)} :
        \A out \in {CardOutcome(current_section, card, parsed,
                                 section_entry(current_section), old_articles_count,
                                 cutoff_time)} :
            out.kind = "accept"
            => out.entry.articles[Len(out.entry.articles)].url = ExpectedUrl(card)

\* C15: a title counted as old in an earlier round is not counted again when the
\* page is read again: the first card of a later round that raises
\* old_articles_count has a title that was not counted before.  Stated for the
\* windows of 0 hours or more and for the titles that are not empty.
C15_OldCountedOnce ==
    [][(/\ runpc = "crawling"
        /\ cpc = "cards"
        /\ card_idx = 0
        /\ hours_limit >= 0
        /\ <<>> \notin stale_titles'
        /\ runpc' = "crawling"
        /\ old_articles_count' = old_articles_count + 1)
       => stale_titles' # stale_titles]_vars

\* C16: a card with an empty title changes nothing: no accepted article has an empty
\* title, the empty title is never seen and, in a window of 0 hours or more, is
\* never counted as old
C16_NoEmptyTitle ==
    /\ \A a \in AllArticles : a.title # <<>>
    /\ \A k \in DOMAIN results : <<>> \notin results[k].seen_titles
    /\ hours_limit >= 0 => <<>> \notin stale_titles

\* C17: a card whose time text makes parse_time raise is skipped: the articles, the
\* seen titles and the old count stay as they are, the for loop goes on with the next
\* card and the crawl goes on
C17_CardErrorSkipsCard ==
    /\ []((runpc = "crawling" /\ cpc = "cards") =>
            \A card \in PageCards(current_section) :
            \A parsed \in {parse_card_time(card, clock)} :
            \A out \in {CardOutcome(current_section, card, parsed,
                                     section_entry(current_section), old_articles_count,
                                     cutoff_time)} :
                (/\ card.has_title
                 /\ get_text(card) \notin results[current_section].seen_titles
                 /\ parsed.exc # "none")
                => /\ out.kind = "skip"
                   /\ out.entry = results[current_section]
                   /\ out.old = old_articles_count)
    /\ [][(~caught /\ caught')
          => /\ results' = results
             /\ old_articles_count' = old_articles_count
             /\ stale_titles' = stale_titles
             /\ card_idx' = card_idx + 1
             /\ runpc' = "crawling"
             /\ cpc' = "cards"
             /\ scroll_count' = scroll_count]_vars

\* in one round of the politics crawl a card with title A made parse_time raise (so A
\* was not seen then) and a later card with title A was accepted
C17_Witness ==
    /\ caught
    /\ runpc = "crawling"
    /\ current_section = "politics"
    /\ <<"A">> \in results["politics"].seen_titles

\* C18: old_articles_count is 0 when a crawl starts, grows by exactly 1 with each card
\* found out of the window and with no other card, never falls and is never reset
\* while the crawl runs, and never exceeds max_old_articles (5)
C18_OldCountMonotone ==
    /\ [](old_articles_count \in 0..5)
    /\ [][(runpc # "crawling" /\ runpc' = "crawling") => old_articles_count' = 0]_vars
    /\ [][(runpc = "crawling" /\ runpc' = "crawling")
          => /\ old_articles_count' \in {old_articles_count, old_articles_count + 1}
             /\ results' # results => old_articles_count' = old_articles_count]_vars
    /\ []((runpc = "crawling" /\ cpc = "cards") =>
            \A card \in PageCards(current_section) :
            \A parsed \in {parse_card_time(card, clock)} :
            \A out \in {CardOutcome(current_section, card, parsed,
                                     section_entry(current_section), old_articles_count,
                                     cutoff_time)} :
                /\ out.why = "old" => out.old = old_articles_count + 1
                /\ out.why # "old" => out.old = old_articles_count)

\* a crawl that has accepted both titles of the politics pages holds a count of 2 for
\* two different titles
C18_Witness ==
    /\ runpc = "crawling"
    /\ current_section = "politics"
    /\ old_articles_count = 2
    /\ stale_titles = {<<"A">>, <<"B">>}
    /\ Len(results["politics"].articles) = 2

\* C19: every crawl of a session starts from a fresh section state, also when the
\* section list names a section twice: the crawl goes as the crawl of the section
\* alone
C19_FreshSectionState ==
    /\ Isolated
    /\ (runpc = "crawling" /\ cpc = "while" /\ rounds_done = 0) =>
          /\ results[current_section] = FreshEntry
          /\ old_articles_count = 0
          /\ scroll_count = 0

\* the titles of a sequence of articles
Titles(articles) == {articles[i].title : i \in DOMAIN articles}

\* s is a prefix of u
IsPrefix(s, u) == Len(s) <= Len(u) /\ SubSeq(u, 1, Len(s)) = s

\* C20: seen_titles is exactly the set of the titles of the accepted articles of
\* the section, and while a crawl runs the accepted sequence only grows at its end
C20_SeenIsAccepted ==
    /\ [](\A k \in DOMAIN results : results[k].seen_titles = Titles(results[k].articles))
    /\ [][runpc = "crawling" =>
            \A k \in DOMAIN results : IsPrefix(results[k].articles, results'[k].articles)]_vars

\* title B was counted as old and is not seen, title A is accepted and seen
C20_Witness ==
    /\ runpc = "crawling"
    /\ current_section = "politics"
    /\ stale_titles = {<<"B">>}
    /\ results["politics"].seen_titles = {<<"A">>}

====
